---- MODULE Spec2Model ----
(***************************************************************************)
(* Model of the inheritance resolver and structural merge engine of        *)
(* src/src/docaggregate.py: deep_merge, get_base_names and the effective   *)
(* (second) definition of build_merged_for_entry, driven by the main pass. *)
(*                                                                         *)
(* YAML values are tagged records [t, v]: t is the Python type ("str",     *)
(* "list", "map"), v the payload.  A dict is a function over the key       *)
(* universe Keys; a key the dict does not hold maps to Absent.             *)
(***************************************************************************)
EXTENDS Integers, Sequences, FiniteSets, TLC

VARIABLES name_index, cache, stack, status, ret, call, resolved, merges, first,
          mkey, mbase, mchild, mresult,
          path_index, pending, emitted,
          nav, refs, walked

vars == <<name_index, cache, stack, status, ret, call, resolved, merges, first,
          mkey, mbase, mchild, mresult,
          path_index, pending, emitted,
          nav, refs, walked>>

resolverVars == <<name_index, cache, stack, status, ret, call, resolved, merges, first>>
mergeVars == <<mkey, mbase, mchild, mresult>>
mainVars == <<path_index, pending, emitted>>
walkVars == <<nav, refs, walked>>

(***************************************************************************)
(* Bounds                                                                  *)
(***************************************************************************)
\* longest declared base list of a record
MaxBases == 2
\* deepest chain of nested build_merged_for_entry frames the interpreter
\* allows before it raises RecursionError (scaled down)
RecursionLimit == 4
\* longest member list handed to deep_merge
MaxMembers == 2
MaxKids == 2

(***************************************************************************)
(* Values                                                                  *)
(***************************************************************************)
BASE_KEYS == <<"inherits", "extends", "superclass", "superclasses", "bases">>

MERGE_LIST_KEYS == {"properties", "methods", "events", "callbacks",
                    "members", "fields", "items", "parameters"}

Keys == {"name", "inherits", "extends", "superclass", "superclasses", "bases",
         "descendants", "tags", "summary", "code_samples", "_ancestors",
         "desc", "type"} \cup MERGE_LIST_KEYS

Absent == [t |-> "absent", v |-> <<>>]
Str(s) == [t |-> "str", v |-> s]
List(q) == [t |-> "list", v |-> q]
Map(f) == [t |-> "map", v |-> f]

EmptyDict == [k \in Keys |-> Absent]
Has(f, k) == f[k].t # "absent"
Put(f, k, val) == [f EXCEPT ![k] = val]
Del(f, k) == [f EXCEPT ![k] = Absent]

\* the list of strings q as a YAML sequence of scalars
StrList(q) == List([i \in 1..Len(q) |-> Str(q[i])])

IsStr(val) == val.t = "str"
NotNamed(it) == ~(it.t = "map" /\ Has(it.v, "name"))
IsNamed(it) == it.t = "map" /\ Has(it.v, "name")

(***************************************************************************)
(* deep_merge                                                              *)
(***************************************************************************)
\* the record names and the member names of the model, and the position of
\* each member name in Python's string order
Names == {"A", "B", "C"}
Ghost == "Ghost"
MemberNames == {"X", "Y", "Z"}
Rank == [X |-> 1, Y |-> 2, Z |-> 3]

RECURSIVE SortedNames(_)
SortedNames(S) ==
    IF S = {} THEN <<>>
    ELSE LET m == CHOOSE x \in S : \A y \in S : Rank[x] <= Rank[y]
         IN <<m>> \o SortedNames(S \ {m})

\* named_items after the loop over the base list: the last base item of each
\* name
SeedBase(bl) ==
    [n \in MemberNames |->
        LET idx == {i \in 1..Len(bl) : IsNamed(bl[i]) /\ bl[i].v["name"].v = n}
        IN IF idx = {} THEN Absent
           ELSE bl[CHOOSE i \in idx : \A j \in idx : j <= i]]

RECURSIVE DeepMerge(_, _), FoldChild(_, _, _)

\* named_items after the loop over the child list, from position i on
FoldChild(items, cl, i) ==
    IF i > Len(cl) THEN items
    ELSE LET it == cl[i] IN
         IF IsNamed(it)
         THEN LET n == it.v["name"].v IN
              FoldChild([items EXCEPT ![n] =
                            IF @.t # "absent" THEN DeepMerge(@, it) ELSE it],
                        cl, i + 1)
         ELSE FoldChild(items, cl, i + 1)

\* the list + list branch for a key of MERGE_LIST_KEYS
MergeMembersConcat(bl, cl) == bl \o cl
MergeMembers(bl, cl) ==
    LET items == FoldChild(SeedBase(bl), cl, 1)
        order == SortedNames({n \in MemberNames : items[n].t # "absent"})
    IN SelectSeq(bl, NotNamed) \o SelectSeq(cl, NotNamed)
         \o [i \in 1..Len(order) |-> items[order[i]]]

\* the list + list branch for every other key (tags included)
MergeListConcat(key, bv, cv) == List(bv.v \o cv.v)
MergeList(key, bv, cv) ==
    IF key \in MERGE_LIST_KEYS THEN List(MergeMembers(bv.v, cv.v))
    ELSE cv

DeepMerge(base, child) ==
    IF base.t # "map" \/ child.t # "map" THEN child
    ELSE Map([k \in Keys |->
            IF ~Has(child.v, k) THEN base.v[k]
            ELSE IF ~Has(base.v, k) THEN child.v[k]
            ELSE IF base.v[k].t = "map" /\ child.v[k].t = "map"
                 THEN DeepMerge(base.v[k], child.v[k])
            ELSE IF base.v[k].t = "list" /\ child.v[k].t = "list"
                 THEN MergeList(k, base.v[k], child.v[k])
            ELSE child.v[k]])

(***************************************************************************)
(* get_base_names                                                          *)
(***************************************************************************)
\* the names one base-reference field contributes
FieldNames(val) ==
    IF val.t = "str" THEN <<val.v>>
    ELSE IF val.t = "list"
         THEN LET strs == SelectSeq(val.v, IsStr)
              IN [i \in 1..Len(strs) |-> strs[i].v]
    ELSE <<>>

RECURSIVE NamesFrom(_, _)
NamesFrom(obj, i) ==
    IF i > Len(BASE_KEYS) THEN <<>>
    ELSE (IF Has(obj, BASE_KEYS[i]) THEN FieldNames(obj[BASE_KEYS[i]]) ELSE <<>>)
           \o NamesFrom(obj, i + 1)

RECURSIVE FirstPresentFrom(_, _)
FirstPresentFrom(obj, i) ==
    IF i > Len(BASE_KEYS) THEN <<>>
    ELSE IF Has(obj, BASE_KEYS[i]) THEN FieldNames(obj[BASE_KEYS[i]])
    ELSE FirstPresentFrom(obj, i + 1)

GetBaseNamesFirstPresent(obj) == FirstPresentFrom(obj, 1)
GetBaseNames(obj) == NamesFrom(obj, 1)

(***************************************************************************)
(* build_merged_for_entry (the second definition, which shadows the first) *)
(***************************************************************************)
InCache(c, n) == c[n].t # "absent"

\* return cache[name]
CachedViewNoChain(c, n) == Map(Del(c[n].v, "_ancestors"))
CachedView(c, n) == c[n]

\* name_index.get(base_name)
Known(idx, b) == b \in DOMAIN idx

\* base_merged.get("_ancestors", []) when it is a list
BaseAncestors(bm) ==
    IF Has(bm.v, "_ancestors") /\ bm.v["_ancestors"].t = "list"
    THEN [i \in 1..Len(bm.v["_ancestors"].v) |-> bm.v["_ancestors"].v[i].v]
    ELSE <<>>

\* The object a dict value lives in: a fresh one, the view cached under a
\* name, or the stored body of a record.  An assignment to a key of a dict
\* changes the object it lives in.
Fresh == [kind |-> "fresh", name |-> ""]
CacheObj(n) == [kind |-> "cache", name |-> n]
BodyObj(n) == [kind |-> "body", name |-> n]

\* copy.deepcopy(data) makes a new object
DeepCopyOwner(o) == Fresh

\* deep_merge builds its result in a deep copy of the base (or of the child):
\* the result shares nothing with its operands
MergeOwnerBase(bo, co) == bo
MergeOwner(bo, co) == Fresh

\* the objects the assignments to merged after the loop reach
WriteThrough(c, o, m) == IF o.kind = "cache" THEN [c EXCEPT ![o.name] = m] ELSE c
WriteBody(idx, o, m) == IF o.kind = "body" THEN [idx EXCEPT ![o.name] = m] ELSE idx

\* the loop body once the base has been resolved to base_merged
AfterBaseOnTop(f, b, bm) ==
    [f EXCEPT !.merged = DeepMerge(@, bm),
              !.owner = MergeOwner(@, CacheObj(b)),
              !.ancestors = @ \o <<b>> \o BaseAncestors(bm),
              !.i = @ + 1]
AfterBase(f, b, bm) ==
    [f EXCEPT !.merged = DeepMerge(bm, @),
              !.owner = MergeOwner(CacheObj(b), @),
              !.ancestors = @ \o <<b>> \o BaseAncestors(bm),
              !.i = @ + 1]

\* the loop body for a base name with no record: continue
AfterMissingAppend(f, b) == [f EXCEPT !.ancestors = @ \o <<b>>, !.i = @ + 1]
AfterMissing(f, b) == [f EXCEPT !.i = @ + 1]

\* de-duplicate preserving first-seen order
RECURSIVE DedupFrom(_, _, _)
DedupFrom(q, i, seen) ==
    IF i > Len(q) THEN <<>>
    ELSE IF q[i] \in seen THEN DedupFrom(q, i + 1, seen)
    ELSE <<q[i]>> \o DedupFrom(q, i + 1, seen \cup {q[i]})

DedupNone(q) == q
Dedup(q) == DedupFrom(q, 1, {})

\* descendants: only what this record defines
OwnDescendantsKeep(m, data) == m
OwnDescendants(m, data) ==
    IF Has(data, "descendants") THEN Put(m, "descendants", data["descendants"])
    ELSE IF Has(m, "descendants") THEN Del(m, "descendants")
    ELSE m

\* the merged view of a frame whose loop over the bases is over
Finalize(f) ==
    Map(OwnDescendants(Put(f.merged.v, "_ancestors", StrList(Dedup(f.ancestors))),
                       f.data.v))

\* cache[name] = merged
CacheStoreNothing(c, n, m) == c
CacheStore(c, n, m) == [c EXCEPT ![n] = m]

\* the frame of a call that got past the cache check
NewFrame(n, data) ==
    [name |-> n, data |-> data, merged |-> data, owner |-> DeepCopyOwner(BodyObj(n)),
     ancestors |-> <<>>, i |-> 1]

Top == stack[Len(stack)]
TopBases == GetBaseNames(Top.data.v)
Pop(s) == SubSeq(s, 1, Len(s) - 1)
ReplaceTop(s, f) == [s EXCEPT ![Len(s)] = f]

(***************************************************************************)
(* Record sets                                                             *)
(***************************************************************************)
SeqsUpTo(T, n) == UNION {[1..k -> T] : k \in 1..n}

\* the base-reference fields a leaf body may declare over the targets T: none,
\* one name, a list of names, or names spread over two fields
LeafDecls(T) ==
    {EmptyDict}
    \cup {Put(EmptyDict, "inherits", Str(x)) : x \in T}
    \cup {Put(EmptyDict, "inherits", StrList(q)) : q \in SeqsUpTo(T, MaxBases) \ SeqsUpTo(T, 1)}
    \cup {Put(Put(EmptyDict, "extends", Str(p[1])), "bases", StrList(<<p[2]>>)) :
            p \in {q \in T \X T : q[1] # q[2]}}
    \cup {Put(Put(EmptyDict, "inherits", StrList(<<p[1]>>)), "extends", Str(p[2])) :
            p \in {q \in T \X T : q[1] # q[2]}}

\* the base-reference fields of a record with at most one base
SingleDecls(T) ==
    {EmptyDict}
    \cup {Put(EmptyDict, "inherits", Str(x)) : x \in T}
    \cup {Put(EmptyDict, "extends", Str(x)) : x \in T}

\* the fields a record declares besides its bases
Rich(d, n) ==
    [d EXCEPT !["name"] = Str(n),
              !["descendants"] = StrList(<<n>>),
              !["tags"] = StrList(<<n>>),
              !["summary"] = Str(n),
              !["properties"] =
                  List(<<Map([EmptyDict EXCEPT !["name"] = Str("X"),
                                               !["desc"] = Str(n)])>>)]

WithContent(D, n) == {Map(d) : d \in D} \cup {Map(Rich(d, n)) : d \in D}

\* C is a leaf over A, B and a name with no record; B has at most one base;
\* A is a root, or closes a cycle through itself or through B
Bodies ==
    [A |-> WithContent({d \in SingleDecls({"A", "B"}) : ~Has(d, "extends")}, "A"),
     B |-> WithContent(SingleDecls({"A", Ghost}), "B"),
     C |-> WithContent(LeafDecls({"A", "B", Ghost}), "C")]

RecordSets == {[A |-> a, B |-> b, C |-> c] :
                 a \in Bodies["A"], b \in Bodies["B"], c \in Bodies["C"]}

(***************************************************************************)
(* The resolver driven by the main pass                                    *)
(***************************************************************************)
NoCall == [name |-> "", hit |-> FALSE, merges0 |-> 0]

\* the paths of the record files, and the entry and the written record that
\* stand for none
Paths == {"p1", "p2", "p3"}
NoEntry == [name |-> "", data |-> Absent]
NoRecord == [path |-> "", raw |-> Absent, merged |-> Absent]

\* the record main writes for the entry at path p: raw_yaml and merged_yaml
WrittenRecord(p, m) == [path |-> p, raw |-> path_index[p].data, merged |-> m]

MainIdle ==
    /\ path_index = [p \in Paths |-> NoEntry]
    /\ pending = ""
    /\ emitted = NoRecord

(***************************************************************************)
(* iter_reference_objects: the walk of the navigation tree                 *)
(*                                                                         *)
(* A node of the tree is a record [t, keys, path, kids]: t is "dict",      *)
(* "list" or "scalar"; keys holds the scalar fields the walker reads       *)
(* ("" for a key that is missing or falsy); path is the tagged value of    *)
(* the "path" key; kids are the values of a dict, or the items of a list,  *)
(* in document order.                                                      *)
(***************************************************************************)
NoKeys == [title |-> "", label |-> "", name |-> "", id |-> "", key |-> "", type |-> ""]
NonStrPath == [t |-> "int", v |-> <<>>]
NavDict(keys, path, kids) == [t |-> "dict", keys |-> keys, path |-> path, kids |-> kids]
NavList(items) == [t |-> "list", keys |-> NoKeys, path |-> Absent, kids |-> items]
NavScalar == [t |-> "scalar", keys |-> NoKeys, path |-> Absent, kids |-> <<>>]

\* normalize_rel_path on the paths of the model: the posix form with every
\* leading "." and "/" stripped
NormalizeRelPath(p) ==
    CASE p = "./classes/Foo.yaml" -> "classes/Foo.yaml"
      [] p = "/enums/Baz.yaml" -> "enums/Baz.yaml"
      [] OTHER -> p

\* title = title or label or name; node_id = id or key
Title(node) ==
    IF node.keys.title # "" THEN node.keys.title
    ELSE IF node.keys.label # "" THEN node.keys.label
    ELSE node.keys.name
NodeId(node) == IF node.keys.id # "" THEN node.keys.id ELSE node.keys.key

\* the breadcrumb entry of a dict node; "" stands for a key the entry lacks
NoMeta == [id |-> "", title |-> "", type |-> ""]
Meta(node) == [id |-> NodeId(node), title |-> Title(node), type |-> node.keys.type]

\* current_breadcrumbs: a fresh list, the trail plus the node's entry if it
\* has one
CurrentBreadcrumbs(node, breadcrumbs) ==
    IF Meta(node) # NoMeta THEN breadcrumbs \o <<Meta(node)>> ELSE breadcrumbs

\* the trail the values of a dict are walked with
ChildBreadcrumbsOuter(breadcrumbs, current) == breadcrumbs
ChildBreadcrumbs(breadcrumbs, current) == current

\* the reference yielded for the node at position pos of the tree; at stands
\* for the copy of the node the reference carries
Reference(node, crumbs, pos) ==
    [path |-> NormalizeRelPath(node.path.v), breadcrumbs |-> crumbs, at |-> pos]

RECURSIVE IterReferenceObjects(_, _, _)
RECURSIVE IterValues(_, _, _, _)
\* the references of the subtree at node, in the order they are yielded
IterReferenceObjects(node, breadcrumbs, pos) ==
    CASE node.t = "dict" ->
           LET current == CurrentBreadcrumbs(node, breadcrumbs)
               own == IF node.path.t = "str"
                      THEN <<Reference(node, current, pos)>>
                      ELSE <<>>
           IN own \o IterValues(node.kids, 1, ChildBreadcrumbs(breadcrumbs, current), pos)
      [] node.t = "list" -> IterValues(node.kids, 1, breadcrumbs, pos)
      [] OTHER -> <<>>

\* the references of the values kids[i..], each walked only if it is a dict
\* or a list
IterValues(kids, i, breadcrumbs, pos) ==
    IF i > Len(kids) THEN <<>>
    ELSE (IF kids[i].t \in {"dict", "list"}
          THEN IterReferenceObjects(kids[i], breadcrumbs, pos \o <<i>>)
          ELSE <<>>)
         \o IterValues(kids, i + 1, breadcrumbs, pos)

WalkIdle ==
    /\ nav = NavScalar
    /\ refs = <<>>
    /\ walked = FALSE

MergeIdle ==
    /\ mkey = "properties"
    /\ mbase = <<>>
    /\ mchild = <<>>
    /\ mresult = Absent

Init ==
    /\ name_index \in RecordSets
    /\ cache = [n \in Names |-> Absent]
    /\ first = [n \in Names |-> Absent]
    /\ stack = <<>>
    /\ status = "idle"
    /\ ret = Absent
    /\ call = NoCall
    /\ resolved = [n \in Names |-> 0]
    /\ merges = 0
    /\ MergeIdle
    /\ MainIdle
    /\ WalkIdle

\* main calls build_merged_for_entry for a name that is in the cache
ResolveHit(n) ==
    /\ status = "idle"
    /\ InCache(cache, n)
    /\ ret' = CachedView(cache, n)
    /\ call' = [name |-> n, hit |-> TRUE, merges0 |-> merges]
    /\ UNCHANGED <<name_index, cache, stack, status, resolved, merges, first>>
    /\ UNCHANGED <<mergeVars, mainVars, walkVars>>

\* main calls build_merged_for_entry for a name that is not in the cache
ResolveMiss(n) ==
    /\ status = "idle"
    /\ ~InCache(cache, n)
    /\ stack' = <<NewFrame(n, name_index[n])>>
    /\ status' = "running"
    /\ ret' = Absent
    /\ call' = [name |-> n, hit |-> FALSE, merges0 |-> merges]
    /\ resolved' = [resolved EXCEPT ![n] = @ + 1]
    /\ UNCHANGED <<name_index, cache, merges, first>>
    /\ UNCHANGED <<mergeVars, mainVars, walkVars>>

\* the next declared base has no record
SkipMissingBase ==
    /\ status = "running"
    /\ Top.i <= Len(TopBases)
    /\ ~Known(name_index, TopBases[Top.i])
    /\ stack' = ReplaceTop(stack, AfterMissing(Top, TopBases[Top.i]))
    /\ UNCHANGED <<name_index, cache, status, ret, call, resolved, merges, first>>
    /\ UNCHANGED <<mergeVars, mainVars, walkVars>>

\* the next declared base is in the cache: the nested call returns it
MergeCachedBase ==
    /\ status = "running"
    /\ Top.i <= Len(TopBases)
    /\ LET b == TopBases[Top.i] IN
         /\ Known(name_index, b)
         /\ InCache(cache, b)
         /\ stack' = ReplaceTop(stack, AfterBase(Top, b, CachedView(cache, b)))
    /\ merges' = merges + 1
    /\ UNCHANGED <<name_index, cache, status, ret, call, resolved, first>>
    /\ UNCHANGED <<mergeVars, mainVars, walkVars>>

\* the next declared base is not in the cache: the nested call runs its body
CallBase ==
    /\ status = "running"
    /\ Top.i <= Len(TopBases)
    /\ Len(stack) < RecursionLimit
    /\ LET b == TopBases[Top.i] IN
         /\ Known(name_index, b)
         /\ ~InCache(cache, b)
         /\ stack' = Append(stack, NewFrame(b, name_index[b]))
         /\ resolved' = [resolved EXCEPT ![b] = @ + 1]
    /\ UNCHANGED <<name_index, cache, status, ret, call, merges, first>>
    /\ UNCHANGED <<mergeVars, mainVars, walkVars>>

\* the nested call would exceed the interpreter's recursion limit
RecursionOverflow ==
    /\ status = "running"
    /\ Top.i <= Len(TopBases)
    /\ Len(stack) >= RecursionLimit
    /\ LET b == TopBases[Top.i] IN
         /\ Known(name_index, b)
         /\ ~InCache(cache, b)
    /\ status' = "RecursionError"
    /\ UNCHANGED <<name_index, cache, stack, ret, call, resolved, merges, first>>
    /\ UNCHANGED <<mergeVars, mainVars, walkVars>>

\* the loop over the bases is over: finish, store in the cache and return to
\* the caller, which merges the result when it is a frame
Finish ==
    /\ status = "running"
    /\ Top.i > Len(TopBases)
    /\ LET m == Finalize(Top)
           n == Top.name
       IN /\ cache' = CacheStore(WriteThrough(cache, Top.owner, m), n, m)
          /\ name_index' = WriteBody(name_index, Top.owner, m)
          /\ first' = IF first[n].t = "absent" THEN [first EXCEPT ![n] = m] ELSE first
          /\ IF Len(stack) = 1
             THEN /\ stack' = <<>>
                  /\ status' = "idle"
                  /\ ret' = m
                  /\ merges' = merges
                  /\ emitted' = IF pending # "" THEN WrittenRecord(pending, m) ELSE emitted
                  /\ pending' = ""
             ELSE /\ stack' = ReplaceTop(Pop(stack), AfterBase(stack[Len(stack) - 1], n, m))
                  /\ merges' = merges + 1
                  /\ UNCHANGED <<status, ret, pending, emitted>>
    /\ UNCHANGED <<call, resolved, path_index>>
    /\ UNCHANGED <<mergeVars, walkVars>>

Next ==
    \/ \E n \in Names : ResolveHit(n)
    \/ \E n \in Names : ResolveMiss(n)
    \/ SkipMissingBase
    \/ MergeCachedBase
    \/ CallBase
    \/ RecursionOverflow
    \/ Finish

Spec == Init /\ [][Next]_vars

(***************************************************************************)
(* Vocabulary of the properties                                            *)
(***************************************************************************)
Cached == {n \in Names : InCache(cache, n)}
Data(n) == name_index[n].v
View(n) == cache[n].v
Anc(n) == BaseAncestors(cache[n])
Range(q) == {q[i] : i \in 1..Len(q)}
IsRecordName(b) == b \in DOMAIN name_index

\* the declared bases of n that have a record, in declared order
KnownBases(n) == SelectSeq(GetBaseNames(Data(n)), IsRecordName)

RECURSIVE Closure(_)
Closure(S) ==
    LET next == S \cup UNION {Range(KnownBases(x)) : x \in S}
    IN IF next = S THEN S ELSE Closure(next)

\* the records reachable from n through resolvable base references
Reachable(n) == Closure(Range(KnownBases(n)))
Acyclic == \A n \in Names : n \notin Reachable(n)

\* position of the first occurrence of x in q
FirstIndex(q, x) == CHOOSE i \in 1..Len(q) : q[i] = x /\ \A j \in 1..(i - 1) : q[j] # x
NoRepeat(q) == \A i, j \in 1..Len(q) : i # j => q[i] # q[j]

\* C1: resolving any record of any finite record set, cyclic ones included,
\* terminates with a merged view: the recursion never runs into the
\* interpreter's limit.
C1_AlwaysTerminates == status # "RecursionError"

\* C2: over an acyclic record set the body of each record name is resolved at
\* most once, the cache keeps the first resolution, and a call that hits the
\* cache performs no merge and returns the first resolution.
C2_ResolvedOnce ==
    Acyclic =>
        /\ \A n \in Names : resolved[n] <= 1
        /\ \A n \in Cached : cache[n] = first[n]
        /\ call.hit => (merges = call.merges0 /\ ret = first[call.name])

\* a diamond C -> B -> A, C -> A is resolved and A is then asked for again
C2_Witness ==
    /\ Acyclic
    /\ call.hit /\ call.name = "A"
    /\ Cached = Names
    /\ "A" \in Range(KnownBases("B"))
    /\ {"A", "B"} \subseteq Range(KnownBases("C"))
    /\ merges = 3

RECURSIVE WalkFrom(_, _)
\* the walk that visits each resolvable declared base of n, from the i-th on,
\* in declared order, each followed by its own walk
WalkFrom(n, i) ==
    IF i > Len(KnownBases(n)) THEN <<>>
    ELSE <<KnownBases(n)[i]>> \o WalkFrom(KnownBases(n)[i], 1) \o WalkFrom(n, i + 1)

Walk(n) == WalkFrom(n, 1)

\* C3: over an acyclic record set the ancestors list of every merged view
\* holds no name twice, holds exactly the records reachable through
\* resolvable base references, and is in first-seen order of the walk over
\* the declared bases, each followed by its own chain.
C3_Ancestors ==
    Acyclic =>
        \A n \in Cached :
            /\ View(n)["_ancestors"].t = "list"
            /\ NoRepeat(Anc(n))
            /\ Range(Anc(n)) = Reachable(n)
            /\ Range(Anc(n)) = Range(Walk(n))
            /\ \A i, j \in 1..Len(Anc(n)) :
                  i < j => FirstIndex(Walk(n), Anc(n)[i]) < FirstIndex(Walk(n), Anc(n)[j])

\* the diamond C -> B -> A, C -> A with B declared first
C3_Witness ==
    /\ Acyclic
    /\ "C" \in Cached
    /\ KnownBases("C") = <<"B", "A">>
    /\ KnownBases("B") = <<"A">>
    /\ Walk("C") = <<"B", "A", "A">>
    /\ Anc("C") = <<"B", "A">>

\* C5: the descendants field of a merged view is the leaf's own value when
\* the leaf declares it and is absent when the leaf does not, whatever the
\* bases declare.
C5_DescendantsOwnOnly ==
    \A n \in Cached :
        IF Has(Data(n), "descendants")
        THEN View(n)["descendants"] = Data(n)["descendants"]
        ELSE ~Has(View(n), "descendants")

\* a leaf without descendants over a base that declares them
C5_Witness ==
    /\ "C" \in Cached
    /\ ~Has(Data("C"), "descendants")
    /\ "A" \in Range(Anc("C"))
    /\ "A" \in Range(KnownBases("C"))
    /\ Has(View("A"), "descendants")

\* C6: the inherits field of a merged view is the leaf's own value when the
\* leaf declares it and is absent when only a base carries it.
C6_InheritsOwnOnly ==
    \A n \in Cached :
        IF Has(Data(n), "inherits")
        THEN View(n)["inherits"] = Data(n)["inherits"]
        ELSE ~Has(View(n), "inherits")

\* C7: the name field of a merged view is the leaf's declared name, or the
\* name the record is indexed under when the body declares none; never the
\* name of a base.
C7_NameIsLeafName ==
    \A n \in Cached :
        View(n)["name"] = (IF Has(Data(n), "name") THEN Data(n)["name"] ELSE Str(n))

\* the names field i of BASE_KEYS declares in the body of n
Declared(n, i) ==
    IF Has(Data(n), BASE_KEYS[i]) THEN FieldNames(Data(n)[BASE_KEYS[i]]) ELSE <<>>

\* the first present base-reference field of the body of n
FirstPresent(n) ==
    IF \E i \in 1..Len(BASE_KEYS) : Has(Data(n), BASE_KEYS[i])
    THEN Declared(n, CHOOSE i \in 1..Len(BASE_KEYS) :
                        /\ Has(Data(n), BASE_KEYS[i])
                        /\ \A j \in 1..(i - 1) : ~Has(Data(n), BASE_KEYS[j]))
    ELSE <<>>

RECURSIVE ClosureFirst(_)
ClosureFirst(S) ==
    LET next == S \cup UNION {Range(FirstPresent(x)) \cap Names : x \in S}
    IN IF next = S THEN S ELSE ClosureFirst(next)

AllDeclared(n) ==
    Declared(n, 1) \o Declared(n, 2) \o Declared(n, 3) \o Declared(n, 4) \o Declared(n, 5)

RECURSIVE ClosureAll(_)
ClosureAll(S) ==
    LET next == S \cup UNION {Range(AllDeclared(x)) \cap Names : x \in S}
    IN IF next = S THEN S ELSE ClosureAll(next)

\* C8 as stated: only the first present base-reference field contributes
\* base names, so the ancestors of a merged view are the records reachable
\* through first present fields.
C8_FirstPresentOnly ==
    \A n \in Cached : Range(Anc(n)) = ClosureFirst(Range(FirstPresent(n)) \cap Names)

\* C8 amended: every present base-reference field contributes its names, in
\* the priority order of the fields: every declared name with a record is an
\* ancestor, the ancestors are the records reachable through all the fields,
\* and the first declared name with a record comes first.
C8_EveryFieldContributes ==
    \A n \in Cached :
        LET known == SelectSeq(AllDeclared(n), IsRecordName) IN
        /\ Range(known) \subseteq Range(Anc(n))
        /\ Range(Anc(n)) = ClosureAll(Range(known))
        /\ known # <<>> => Anc(n)[1] = known[1]

\* a leaf with two present fields naming different records
C8_Witness ==
    /\ "C" \in Cached
    /\ Declared("C", 1) = <<"A">>
    /\ Declared("C", 2) = <<"B">>
    /\ KnownBases("B") = <<>>
    /\ Anc("C") = <<"A", "B">>

\* C9: a declared base name with no record is skipped: it is no ancestor,
\* the declared bases that have a record are still resolved and merged, and
\* when no declared base has a record the merged view is the leaf's body
\* plus an empty ancestors list.
C9_MissingBaseSkipped ==
    \A n \in Cached :
        /\ Range(Anc(n)) \subseteq Names
        /\ Range(KnownBases(n)) \subseteq Range(Anc(n))
        /\ \A b \in Range(KnownBases(n)) :
              (b \in Cached /\ Has(View(b), "summary")) => Has(View(n), "summary")
        /\ KnownBases(n) = <<>> =>
              cache[n] = Map(Put(Data(n), "_ancestors", StrList(<<>>)))

\* a leaf that declares a name with no record before a record
C9_Witness ==
    /\ "C" \in Cached
    /\ GetBaseNames(Data("C")) = <<Ghost, "A">>
    /\ Anc("C") = <<"A">>
    /\ Has(View("A"), "summary")
    /\ ~Has(Data("C"), "summary")

\* C10: the tags of the merged view of a record that declares tags are
\* exactly the leaf's own tags.
C10_TagsNeverAccumulate ==
    \A n \in Cached :
        Has(Data(n), "tags") => View(n)["tags"] = Data(n)["tags"]

\* a leaf with tags over two declared bases and a chain of depth two, every
\* record declaring tags
C10_Witness ==
    /\ "C" \in Cached
    /\ KnownBases("C") = <<"A", "B">>
    /\ KnownBases("B") = <<"A">>
    /\ \A n \in Names : Has(Data(n), "tags")
    /\ Anc("C") = <<"A", "B">>

(***************************************************************************)
(* deep_merge applied to member lists                                      *)
(***************************************************************************)
Member(n, d) == Map([EmptyDict EXCEPT !["name"] = Str(n), !["desc"] = Str(d)])
TypedMember(n, d, ty) == Map([Member(n, d).v EXCEPT !["type"] = Str(ty)])

\* members named X and Y with and without a type, a map without a name and
\* an item that is no map
Members ==
    {Member("X", "b"), TypedMember("X", "c", "t"),
     Member("Y", "c"), TypedMember("Y", "b", "t"),
     Map([EmptyDict EXCEPT !["desc"] = Str("u")]), Str("s")}

MemberLists == {<<>>} \cup SeqsUpTo(Members, MaxMembers)

\* two member-group keys and a key that is none
MergeKeys == {"properties", "items", "tags"}

ResolverIdle ==
    /\ name_index = [n \in Names |-> Map(EmptyDict)]
    /\ cache = [n \in Names |-> Absent]
    /\ first = [n \in Names |-> Absent]
    /\ stack = <<>>
    /\ status = "idle"
    /\ ret = Absent
    /\ call = NoCall
    /\ resolved = [n \in Names |-> 0]
    /\ merges = 0

InitMerge ==
    /\ ResolverIdle
    /\ MainIdle
    /\ WalkIdle
    /\ mkey \in MergeKeys
    /\ mbase \in MemberLists
    /\ mchild \in MemberLists
    /\ mresult = Absent

\* deep_merge({mkey: mbase}, {mkey: mchild})
ApplyMerge ==
    /\ mresult = Absent
    /\ mresult' = DeepMerge(Map(Put(EmptyDict, mkey, List(mbase))),
                            Map(Put(EmptyDict, mkey, List(mchild))))
    /\ UNCHANGED <<mkey, mbase, mchild>>
    /\ UNCHANGED <<resolverVars, mainVars, walkVars>>

NextMerge == ApplyMerge

SpecMerge == InitMerge /\ [][NextMerge]_vars

NameOf(it) == it.v["name"].v
NamedAt(q) == {i \in 1..Len(q) : IsNamed(q[i])}
NamedNames(q) == {NameOf(q[i]) : i \in NamedAt(q)}
Last(S) == CHOOSE i \in S : \A j \in S : j <= i
\* the positions of q that hold a member named n, and those that also hold
\* the field k
At(q, n) == {i \in NamedAt(q) : NameOf(q[i]) = n}
AtWith(q, n, k) == {i \in At(q, n) : Has(q[i].v, k)}

\* C4: for a member-group key whose value is a list in base and child,
\* deep_merge yields the union by member name: one member per name of base
\* or child, no name twice, a member of the base alone kept as it is, and in
\* a member of both every field the child's member holds has the child's
\* value and every other field the base's.
C4_MemberUnion ==
    (mresult.t = "map" /\ mkey \in MERGE_LIST_KEYS) =>
        LET r == mresult.v[mkey].v IN
        /\ mresult.v[mkey].t = "list"
        /\ NamedNames(r) = NamedNames(mbase) \cup NamedNames(mchild)
        /\ \A i, j \in NamedAt(r) : i # j => NameOf(r[i]) # NameOf(r[j])
        /\ \A n \in NamedNames(mbase) \ NamedNames(mchild) :
              \E i \in NamedAt(r) : r[i] = mbase[Last(At(mbase, n))]
        /\ \A n \in NamedNames(mbase) \cap NamedNames(mchild) :
              \A i \in At(r, n) : \A k \in Keys :
                  r[i].v[k] = IF AtWith(mchild, n, k) # {}
                              THEN mchild[Last(AtWith(mchild, n, k))].v[k]
                              ELSE mbase[Last(At(mbase, n))].v[k]

\* X is in base and child, its type only in the base; Y is in the base alone
C4_Witness ==
    /\ mkey = "properties"
    /\ mbase = <<TypedMember("X", "c", "t"), Member("Y", "c")>>
    /\ mchild = <<Member("X", "b")>>
    /\ mresult.t = "map"
    /\ mresult.v["properties"].v = <<TypedMember("X", "b", "t"), Member("Y", "c")>>

(***************************************************************************)
(* Resolution as a function of the record set                              *)
(***************************************************************************)
RECURSIVE PureFrom(_, _, _, _)
\* the merged view of record n computed from the record set alone: its
\* resolvable bases from the i-th on are merged underneath m in declared
\* order, each resolved the same way
PureFrom(n, i, m, anc) ==
    IF i > Len(KnownBases(n))
    THEN Map(OwnDescendants(Put(m.v, "_ancestors", StrList(Dedup(anc))), Data(n)))
    ELSE LET b == KnownBases(n)[i]
             bm == PureFrom(b, 1, name_index[b], <<>>)
         IN PureFrom(n, i + 1, DeepMerge(bm, m), anc \o <<b>> \o BaseAncestors(bm))

PureView(n) == PureFrom(n, 1, name_index[n], <<>>)

\* C11: over an acyclic record set the merged view in the cache is the same
\* whatever the order of the calls that filled the cache: it is the view the
\* record set alone determines.
C11_OrderIndependent ==
    Acyclic => \A n \in Cached : cache[n] = PureView(n)

\* the diamond resolved base first: main resolved B (and A inside it) before
\* it resolved C, which found both its bases in the cache
C11_Witness ==
    /\ Acyclic
    /\ Cached = Names
    /\ KnownBases("C") = <<"B", "A">>
    /\ KnownBases("B") = <<"A">>
    /\ status = "idle"
    /\ call = [name |-> "C", hit |-> FALSE, merges0 |-> 1]
    /\ resolved = [n \in Names |-> 1]

\* C12: a merged view is never changed once it is in the cache, and the
\* stored record bodies are never changed: no step of a resolution, in
\* particular none of a descendant that merges the view as a base, writes to
\* either.
C12_NeverMutated ==
    [][/\ \A n \in Names : InCache(cache, n) => cache'[n] = cache[n]
       /\ name_index' = name_index]_vars

\* a leaf has merged the cached view of a base that declares descendants,
\* has set its own ancestors and has dropped the inherited descendants
C12_Witness ==
    /\ {"A", "C"} \subseteq Cached
    /\ KnownBases("C") = <<"A">>
    /\ KnownBases("A") = <<>>
    /\ Anc("C") = <<"A">>
    /\ Anc("A") = <<>>
    /\ Has(View("A"), "descendants")
    /\ ~Has(View("C"), "descendants")
    /\ call.name = "C"

\* the value of key k the bases of n hand down: that of the earliest declared
\* base with a record whose merged view holds k
Inherited(n, k) ==
    LET kb == KnownBases(n)
        idx == {i \in 1..Len(kb) : Has(View(kb[i]), k)}
    IN IF idx = {} THEN Absent
       ELSE View(kb[CHOOSE i \in idx : \A j \in idx : i <= j])[k]

\* the desc field of the member named X of the properties of the dict m
DescOfX(m) ==
    IF Has(m, "properties") /\ m["properties"].t = "list"
          /\ At(m["properties"].v, "X") # {}
    THEN m["properties"].v[Last(At(m["properties"].v, "X"))].v["desc"]
    ELSE Absent

InheritedDescOfX(n) ==
    LET kb == KnownBases(n)
        idx == {i \in 1..Len(kb) : DescOfX(View(kb[i])) # Absent}
    IN IF idx = {} THEN Absent
       ELSE DescOfX(View(kb[CHOOSE i \in idx : \A j \in idx : i <= j]))

MainNames == {"A", "B"}

\* the body of the file at path p: its name, a summary only it has, and at
\* most one base
MainBodies(p, n) ==
    LET own == [EmptyDict EXCEPT !["name"] = Str(n), !["summary"] = Str(p)]
    IN {Map(own)} \cup {Map(Put(own, "inherits", Str(x))) : x \in MainNames}

PathIndexes ==
    {pi \in [Paths -> UNION {{[name |-> n, data |-> d] : d \in MainBodies(p, n)} :
                               p \in Paths, n \in MainNames}] :
        \A p \in Paths : pi[p].data \in MainBodies(p, pi[p].name)}

\* name_index[name] = entry for every file loaded: the last file of a name
\* wins, and the order of the files is the file system's
NameIndexes(pi) ==
    LET used == {pi[p].name : p \in Paths}
    IN {idx \in [used -> {pi[p].data : p \in Paths}] :
          \A n \in used : \E p \in Paths : pi[p].name = n /\ idx[n] = pi[p].data}

InitMain ==
    /\ path_index \in PathIndexes
    /\ name_index \in NameIndexes(path_index)
    /\ cache = [n \in Names |-> Absent]
    /\ first = [n \in Names |-> Absent]
    /\ stack = <<>>
    /\ status = "idle"
    /\ ret = Absent
    /\ call = NoCall
    /\ resolved = [n \in Names |-> 0]
    /\ merges = 0
    /\ pending = ""
    /\ emitted = NoRecord
    /\ MergeIdle
    /\ WalkIdle

\* main finds the entry of path p, its name is in the cache, and main writes
\* the record
MainHit(p) ==
    /\ status = "idle"
    /\ InCache(cache, path_index[p].name)
    /\ ret' = CachedView(cache, path_index[p].name)
    /\ emitted' = WrittenRecord(p, CachedView(cache, path_index[p].name))
    /\ call' = [name |-> path_index[p].name, hit |-> TRUE, merges0 |-> merges]
    /\ UNCHANGED <<name_index, cache, stack, status, resolved, merges, first>>
    /\ UNCHANGED <<path_index, pending>>
    /\ UNCHANGED <<mergeVars, walkVars>>

\* main finds the entry of path p and its name is not in the cache: the body
\* of build_merged_for_entry runs for the entry, and main writes the record
\* when the call returns
MainMiss(p) ==
    /\ status = "idle"
    /\ ~InCache(cache, path_index[p].name)
    /\ stack' = <<NewFrame(path_index[p].name, path_index[p].data)>>
    /\ status' = "running"
    /\ ret' = Absent
    /\ pending' = p
    /\ call' = [name |-> path_index[p].name, hit |-> FALSE, merges0 |-> merges]
    /\ resolved' = [resolved EXCEPT ![path_index[p].name] = @ + 1]
    /\ UNCHANGED <<name_index, cache, merges, first>>
    /\ UNCHANGED <<path_index, emitted>>
    /\ UNCHANGED <<mergeVars, walkVars>>

NextMain ==
    \/ \E p \in Paths : MainHit(p)
    \/ \E p \in Paths : MainMiss(p)
    \/ SkipMissingBase
    \/ MergeCachedBase
    \/ CallBase
    \/ RecursionOverflow
    \/ Finish

SpecMain == InitMain /\ [][NextMain]_vars

\* the declared bases of the body d that have a record
KnownOf(d) == SelectSeq(GetBaseNames(d.v), IsRecordName)

\* the resolution from the body d terminates: no record it reaches is on a
\* cycle
TerminatesFrom(d) == \A x \in Closure(Range(KnownOf(d))) : x \notin Reachable(x)

RECURSIVE PureBodyFrom(_, _, _, _)
\* the merged view of an entry of body d computed from the record set alone
PureBodyFrom(d, i, m, anc) ==
    IF i > Len(KnownOf(d))
    THEN Map(OwnDescendants(Put(m.v, "_ancestors", StrList(Dedup(anc))), d.v))
    ELSE LET b == KnownOf(d)[i]
             bm == PureView(b)
         IN PureBodyFrom(d, i + 1, DeepMerge(bm, m), anc \o <<b>> \o BaseAncestors(bm))

\* C13: every record main writes pairs a body with the resolution of that
\* same body: merged_yaml is the merged view of the entry whose data is
\* raw_yaml, also when two paths hold records of the same name.
C13_EmittedIsOwnResolution ==
    (emitted.path # "" /\ TerminatesFrom(emitted.raw)) =>
        emitted.merged = PureBodyFrom(emitted.raw, 1, emitted.raw, <<>>)

(***************************************************************************)
(* The walk of the navigation tree as a pure function                      *)
(***************************************************************************)
KeysTitle == [NoKeys EXCEPT !.title = "Guide"]
KeysLabelKey == [NoKeys EXCEPT !.label = "Classes", !.key = "classes"]
KeysNameType == [NoKeys EXCEPT !.name = "Enums", !.type = "section"]

LeafFoo == NavDict(NoKeys, Str("./classes/Foo.yaml"), <<>>)
LeafBar == NavDict(KeysTitle, Str("classes/Bar.yaml"), <<>>)
LeafGroup == NavDict(KeysLabelKey, Absent, <<>>)
NavLeaves == {LeafFoo, LeafBar, LeafGroup}

NavLists ==
    {NavList(<<>>), NavList(<<LeafFoo>>), NavList(<<LeafFoo, LeafBar>>),
     NavList(<<NavScalar, LeafBar>>), NavList(<<LeafGroup, LeafFoo>>)}

\* a dict with one dict or list value below it
NavInner ==
    {NavDict(k[1], k[2], <<x>>) :
       k \in {<<KeysTitle, Str("/enums/Baz.yaml")>>, <<KeysNameType, NonStrPath>>},
       x \in NavLeaves \cup {NavList(<<LeafFoo, LeafBar>>)}}

NavSubtrees == NavLeaves \cup {NavScalar} \cup NavLists \cup NavInner

\* the loaded reference tree: a dict or a list with up to MaxKids values
NavTrees ==
    LET kidss == {<<>>} \cup SeqsUpTo(NavSubtrees, MaxKids)
    IN {NavDict(KeysLabelKey, Absent, kids) : kids \in kidss}
       \cup {NavDict(NoKeys, Str("classes/Bar.yaml"), kids) : kids \in kidss}
       \cup {NavList(kids) : kids \in kidss}

InitWalk ==
    /\ ResolverIdle
    /\ MergeIdle
    /\ MainIdle
    /\ nav \in NavTrees
    /\ refs = <<>>
    /\ walked = FALSE

\* list(iter_reference_objects(ref_data))
WalkNav ==
    /\ ~walked
    /\ refs' = IterReferenceObjects(nav, <<>>, <<>>)
    /\ walked' = TRUE
    /\ UNCHANGED nav
    /\ UNCHANGED <<resolverVars, mergeVars, mainVars>>

NextWalk == WalkNav

SpecWalk == InitWalk /\ [][NextWalk]_vars

RECURSIVE NodeAt(_, _)
\* the node at position pos below node
NodeAt(node, pos) ==
    IF Len(pos) = 0 THEN node ELSE NodeAt(node.kids[Head(pos)], Tail(pos))

RECURSIVE Positions(_)
\* the positions of the nodes of the subtree at node
Positions(node) ==
    {<<>>} \cup UNION {{<<i>> \o p : p \in Positions(node.kids[i])} :
                         i \in 1..Len(node.kids)}

\* the positions of the map nodes that carry a string path
RefPositions ==
    {p \in Positions(nav) : NodeAt(nav, p).t = "dict" /\ NodeAt(nav, p).path.t = "str"}

Prefix(p, k) == SubSeq(p, 1, k)

\* p comes before q in depth-first pre-order: p is a proper ancestor of q, or
\* at the first place they part p takes the earlier value
Before(p, q) ==
    \E k \in 0..Len(p) :
       /\ k < Len(q)
       /\ Prefix(p, k) = Prefix(q, k)
       /\ \/ k = Len(p)
          \/ k < Len(p) /\ p[k + 1] < q[k + 1]

RECURSIVE Trail(_, _)
\* the entries of the nodes at the first k + 1 prefixes of p, root first
Trail(p, k) ==
    LET n == NodeAt(nav, Prefix(p, k))
        e == IF n.t = "dict" /\ Meta(n) # NoMeta THEN <<Meta(n)>> ELSE <<>>
    IN IF k = 0 THEN e ELSE Trail(p, k - 1) \o e

\* C14: iter_reference_objects yields exactly one reference per map node with
\* a string path, in depth-first pre-order, and each reference's breadcrumbs
\* are exactly the entries of the nodes from the root to its node inclusive
\* that have an id, a title or a type, root first, with nothing from a
\* sibling or a sibling's subtree.
C14_PreOrderTrail ==
    walked =>
        /\ Len(refs) = Cardinality(RefPositions)
        /\ {refs[i].at : i \in 1..Len(refs)} = RefPositions
        /\ \A i, j \in 1..Len(refs) : i < j => Before(refs[i].at, refs[j].at)
        /\ \A i \in 1..Len(refs) :
              refs[i].breadcrumbs = Trail(refs[i].at, Len(refs[i].at))

\* a titled root whose first value is a titled reference with a reference
\* below it and whose second value is an untitled reference: the second sees
\* the root's entry only
C14_Witness ==
    /\ walked
    /\ Len(refs) = 3
    /\ refs[2].at = <<1, 1>> /\ Len(refs[2].breadcrumbs) = 3
    /\ refs[3].at = <<2>> /\ Len(refs[3].breadcrumbs) = 1
    /\ refs[3].path = "classes/Foo.yaml"
====
